---------------------------- MODULE Spec2Model ----------------------------
(***************************************************************************)
(* Portfolio backend (src/main.py): four read-only JSON routes served from *)
(* profile.json and diary.json, and the /test diagnostic route.            *)
(*                                                                         *)
(* A JSON value is a tagged record: Null, Num(n), Str(s), List(<<..>>) or   *)
(* Obj(f) with f a function from key strings to JSON values.  A Python     *)
(* call either returns a value or raises an exception; both are records.   *)
(***************************************************************************)
EXTENDS Integers, Sequences, FiniteSets, TLC

VARIABLES
    fs,       \* storage: path -> state of that file right now
    boot,     \* storage as it was when the process was started
    workers,  \* per server worker: where its sync handler stands
    resp      \* the HTTP response produced by the step just taken

vars == <<fs, boot, workers, resp>>

\* ------------------------------------------------------------ JSON values
Null == [kind |-> "null"]
Num(n) == [kind |-> "num", n |-> n]
Str(s) == [kind |-> "str", s |-> s]
List(q) == [kind |-> "list", elems |-> q]
Obj(f) == [kind |-> "obj", fields |-> f]

IsDict(v) == v.kind = "obj"
IsList(v) == v.kind = "list"
IsStr(v) == v.kind = "str"
HasKey(v, k) == k \in DOMAIN v.fields

\* ------------------------------------------------------------ file states
Absent == [kind |-> "absent"]
\* exists, but open() is refused (an I/O error)
Unreadable == [kind |-> "unreadable"]
\* exists and opens, but is not JSON (a parse error)
Garbage == [kind |-> "garbage"]
Json(v) == [kind |-> "json", value |-> v]

PROFILE_PATH == "profile.json"
DIARY_PATH == "diary.json"
Paths == {PROFILE_PATH, DIARY_PATH}

\* ------------------------------------------------- Python call outcomes
NoExc == [type |-> "none", status |-> 0, text |-> ""]
Exc(type, text) == [type |-> type, status |-> 0, text |-> text]
HTTPException(status_code, detail) ==
    [type |-> "HTTPException", status |-> status_code, text |-> detail]
Return(v) == [tag |-> "return", value |-> v, exc |-> NoExc]
Raise(e) == [tag |-> "raise", value |-> Null, exc |-> e]

Digit(d) == CASE d = 0 -> "0" [] d = 1 -> "1" [] d = 2 -> "2" [] d = 3 -> "3"
              [] d = 4 -> "4" [] d = 5 -> "5" [] d = 6 -> "6" [] d = 7 -> "7"
              [] d = 8 -> "8" [] d = 9 -> "9"

RECURSIVE IntText(_)
IntText(n) == IF n < 10 THEN Digit(n) ELSE IntText(n \div 10) \o Digit(n % 10)

\* str(e): an HTTPException prints as "<status>: <detail>", the others as
\* their message
PyStr(e) ==
    IF e.type = "HTTPException" THEN IntText(e.status) \o ": " \o e.text
    ELSE e.text

\* type(v).__name__ of the Python object json.load builds for v
PyTypeName(v) ==
    CASE v.kind = "null" -> "NoneType"
      [] v.kind = "num" -> "int"
      [] v.kind = "str" -> "str"
      [] v.kind = "list" -> "list"
      [] v.kind = "obj" -> "dict"

\* ---------------------------------------------------- read_json_file
\* os.path.exists(path), evaluated on the storage as it is now
os_path_exists(path) == fs[path] # Absent

\* open(path, "r") followed by json.load(f), on a given file state
load(path, file) ==
    CASE file.kind = "absent" ->
           Raise(Exc("FileNotFoundError",
                     "[Errno 2] No such file or directory: '" \o path \o "'"))
      [] file.kind = "unreadable" ->
           Raise(Exc("PermissionError",
                     "[Errno 13] Permission denied: '" \o path \o "'"))
      [] file.kind = "garbage" ->
           Raise(Exc("JSONDecodeError",
                     "Expecting value: line 1 column 1 (char 0)"))
      [] file.kind = "json" -> Return(file.value)

\* the same, reading what the file held when the process started
open_and_load_at_import(path) == load(path, boot[path])

\* with open(path, "r") as f: return json.load(f) -- reads storage now
open_and_load(path) == load(path, fs[path])

\* a file opened in mode "w" is created or truncated
opened_for_writing(file) == Garbage

\* the state of a file after open(path, "r"): never created, never changed
opened(file) == file

\* the guard of read_json_file: its own FileNotFoundError
file_not_found(path) == Raise(Exc("FileNotFoundError", "File not found: " \o path))

\* ------------------------------------------------------------ handlers
RootMessage == Obj([message |-> Str("Portfolio Backend Running")])

read_root == Return(RootMessage)

ProfileNotFoundDetail == "profile.json not found. Add it to the backend root."

\* get_profile with the missing file treated like any other failure
get_profile_no_404(r) ==
    IF r.tag = "return" THEN Return(r.value)
    ELSE Raise(HTTPException(500, PyStr(r.exc)))

\* get_profile, given how read_json_file(PROFILE_PATH) ended
get_profile(r) ==
    IF r.tag = "return" THEN Return(r.value)
    ELSE IF r.exc.type = "FileNotFoundError"
         THEN Raise(HTTPException(404, ProfileNotFoundDetail))
         ELSE Raise(HTTPException(500, PyStr(r.exc)))

\* faulty variants of list_diary: the wrapped shape not unwrapped; any parsed
\* shape handed on as it is; the missing file reported like profile.json's
list_diary_no_unwrap(r) ==
    IF r.tag = "return"
    THEN IF IsList(r.value) THEN Return(r.value) ELSE Return(List(<<>>))
    ELSE IF r.exc.type = "FileNotFoundError"
         THEN Return(List(<<>>))
         ELSE Raise(HTTPException(500, PyStr(r.exc)))

list_diary_any_shape(r) ==
    IF r.tag = "return"
    THEN IF IsDict(r.value) /\ HasKey(r.value, "items")
         THEN Return(r.value.fields["items"])
         ELSE Return(r.value)
    ELSE IF r.exc.type = "FileNotFoundError"
         THEN Return(List(<<>>))
         ELSE Raise(HTTPException(500, PyStr(r.exc)))

list_diary_missing_is_404(r) ==
    IF r.tag = "return"
    THEN IF IsDict(r.value) /\ HasKey(r.value, "items")
         THEN Return(r.value.fields["items"])
         ELSE IF IsList(r.value) THEN Return(r.value) ELSE Return(List(<<>>))
    ELSE IF r.exc.type = "FileNotFoundError"
         THEN Raise(HTTPException(404, "diary.json not found"))
         ELSE Raise(HTTPException(500, PyStr(r.exc)))

\* list_diary, given how read_json_file(DIARY_PATH) ended
list_diary(r) ==
    IF r.tag = "return"
    THEN IF IsDict(r.value) /\ HasKey(r.value, "items")
         THEN Return(r.value.fields["items"])
         ELSE IF IsList(r.value) THEN Return(r.value) ELSE Return(List(<<>>))
    ELSE IF r.exc.type = "FileNotFoundError"
         THEN Return(List(<<>>))
         ELSE Raise(HTTPException(500, PyStr(r.exc)))

RECURSIVE KeySeq(_)
KeySeq(keys) ==
    IF keys = {} THEN <<>>
    ELSE LET k == CHOOSE x \in keys : TRUE
         IN <<Str(k)>> \o KeySeq(keys \ {k})

\* "for item in items": what Python iterates over, or the TypeError
Iterate(v) ==
    CASE v.kind = "list" -> Return(v.elems)
      [] v.kind = "obj" -> Return(KeySeq(DOMAIN v.fields))
      [] v.kind = "str" -> Return([i \in 1..Len(v.s) |-> Str(SubSeq(v.s, i, i))])
      [] OTHER -> Raise(Exc("TypeError",
                            "'" \o PyTypeName(v) \o "' object is not iterable"))

\* item.get("id") == item_id, for a dict item and the str of the path
IdEquals(item, item_id) ==
    HasKey(item, "id") /\ item.fields["id"] = Str(item_id)

\* the loop without its early return: the last item with the id wins
RECURSIVE ScanLast(_, _, _)
ScanLast(items, i, item_id) ==
    IF i > Len(items)
    THEN Raise(HTTPException(404, "Diary item not found"))
    ELSE IF ~IsDict(items[i])
         THEN Raise(Exc("AttributeError",
                        "'" \o PyTypeName(items[i])
                            \o "' object has no attribute 'get'"))
         ELSE LET rest == ScanLast(items, i + 1, item_id)
              IN IF rest.tag = "return" \/ rest.exc.type = "AttributeError"
                 THEN rest
                 ELSE IF IdEquals(items[i], item_id) THEN Return(items[i]) ELSE rest

\* the loop of get_diary_item from position i on, and the raise after it
RECURSIVE Scan(_, _, _)
Scan(items, i, item_id) ==
    IF i > Len(items)
    THEN Raise(HTTPException(404, "Diary item not found"))
    ELSE IF ~IsDict(items[i])
         THEN Raise(Exc("AttributeError",
                        "'" \o PyTypeName(items[i])
                            \o "' object has no attribute 'get'"))
         ELSE IF IdEquals(items[i], item_id)
              THEN Return(items[i])
              ELSE Scan(items, i + 1, item_id)

\* the except clauses of get_diary_item without "except HTTPException: raise"
get_diary_item_rewrap(e) == Raise(HTTPException(500, PyStr(e)))

\* the except clauses of get_diary_item, for an exception e of its try body
get_diary_item_except(e) ==
    IF e.type = "HTTPException" THEN Raise(e)
    ELSE Raise(HTTPException(500, PyStr(e)))

\* get_diary_item(item_id), given how read_json_file(DIARY_PATH) ended
get_diary_item(item_id, r) ==
    LET items == list_diary(r)
        it == Iterate(items.value)
        body == IF items.tag = "raise" THEN items
                ELSE IF it.tag = "raise" THEN it
                ELSE Scan(it.value, 1, item_id)
    IN IF body.tag = "return" THEN body ELSE get_diary_item_except(body.exc)

\* ------------------------------------------- response models (pydantic)
FieldIsStr(v, k) == HasKey(v, k) /\ IsStr(v.fields[k])
\* Optional[str] = None: left out, null or a string
FieldIsOptStr(v, k) == ~HasKey(v, k) \/ v.fields[k] = Null \/ IsStr(v.fields[k])
OptField(v, k) == IF HasKey(v, k) THEN v.fields[k] ELSE Null

ValidSocialLink(v) == IsDict(v) /\ FieldIsStr(v, "label") /\ FieldIsStr(v, "url")
DumpSocialLink(v) == Obj([label |-> v.fields["label"], url |-> v.fields["url"]])

ValidProfile(v) ==
    /\ IsDict(v)
    /\ FieldIsStr(v, "name")
    /\ FieldIsStr(v, "photo_url")
    /\ FieldIsOptStr(v, "tagline")
    /\ HasKey(v, "socials")
    /\ IsList(v.fields["socials"])
    /\ \A i \in 1..Len(v.fields["socials"].elems) :
          ValidSocialLink(v.fields["socials"].elems[i])
DumpProfile(v) ==
    Obj([name |-> v.fields["name"],
         photo_url |-> v.fields["photo_url"],
         tagline |-> OptField(v, "tagline"),
         socials |-> List([i \in 1..Len(v.fields["socials"].elems) |->
                              DumpSocialLink(v.fields["socials"].elems[i])])])

ValidDiaryItem(v) ==
    /\ IsDict(v)
    /\ FieldIsStr(v, "id")
    /\ FieldIsStr(v, "title")
    /\ FieldIsStr(v, "date")
    /\ FieldIsOptStr(v, "summary")
    /\ FieldIsOptStr(v, "content")
DumpDiaryItem(v) ==
    Obj([id |-> v.fields["id"],
         title |-> v.fields["title"],
         date |-> v.fields["date"],
         summary |-> OptField(v, "summary"),
         content |-> OptField(v, "content")])

ValidDiaryList(v) == IsList(v) /\ \A i \in 1..Len(v.elems) : ValidDiaryItem(v.elems[i])
DumpDiaryList(v) == List([i \in 1..Len(v.elems) |-> DumpDiaryItem(v.elems[i])])

\* a route declared without its response_model sends the handler's value as is
serialize_unfiltered(model, value) == Return(value)

\* what FastAPI sends for a handler's return value under response_model:
\* the value validated against the model and reduced to the declared fields
serialize_response(model, value) ==
    LET invalid == Raise(Exc("ResponseValidationError", "response validation"))
    IN CASE model = "Profile" ->
              IF ValidProfile(value) THEN Return(DumpProfile(value)) ELSE invalid
         [] model = "DiaryItem" ->
              IF ValidDiaryItem(value) THEN Return(DumpDiaryItem(value)) ELSE invalid
         [] model = "List[DiaryItem]" ->
              IF ValidDiaryList(value) THEN Return(DumpDiaryList(value)) ELSE invalid
         [] OTHER -> Return(value)

Detail(text) == Obj([detail |-> Str(text)])
InternalServerError == [status |-> 500, body |-> Str("Internal Server Error")]

\* the HTTP status and body for the way a handler ended
http_response(model, outcome) ==
    IF outcome.tag = "raise"
    THEN IF outcome.exc.type = "HTTPException"
         THEN [status |-> outcome.exc.status, body |-> Detail(outcome.exc.text)]
         ELSE InternalServerError
    ELSE LET sent == serialize_response(model, outcome.value)
         IN IF sent.tag = "return"
            THEN [status |-> 200, body |-> sent.value]
            ELSE InternalServerError

\* ------------------------------------------------------- test_database
\* The status markers of the source are written in ASCII: (ok) for the check
\* mark, (no) for the cross, (warn) for the warning sign.
Min(a, b) == IF a < b THEN a ELSE b
\* s[:n]
Prefix(s, n) == SubSeq(s, 1, Min(n, Len(s)))

InitialDiagnostics ==
    [backend |-> Str("(ok) Running"),
     database |-> Str("(no) Not Available"),
     database_url |-> Null,
     database_name |-> Null,
     connection_status |-> Str("Not Connected"),
     collections |-> List(<<>>)]

\* the outer except clauses without "except Exception"
test_database_import_only(e, response) ==
    IF e.type \in {"ImportError", "ModuleNotFoundError"}
    THEN Return([response EXCEPT !.database =
              Str("(no) Database module not found (run enable-database first)")])
    ELSE Raise(e)

\* the outer except clauses of test_database, for an exception e of the try body
test_database_except(e, response) ==
    IF e.type \in {"ImportError", "ModuleNotFoundError"}
    THEN Return([response EXCEPT !.database =
              Str("(no) Database module not found (run enable-database first)")])
    ELSE Return([response EXCEPT !.database =
              Str("(no) Error: " \o Prefix(PyStr(e), 50))])

\* the try body of test_database once "from database import db" succeeded
test_database_probe(db, response) ==
    IF db.kind = "None"
    THEN [response EXCEPT !.database = Str("(warn)  Available but not initialized")]
    ELSE LET r1 == [response EXCEPT
                      !.database = Str("(ok) Available"),
                      !.database_url = Str("(ok) Configured"),
                      !.database_name = IF db.has_name THEN Str(db.name)
                                        ELSE Str("(ok) Connected"),
                      !.connection_status = Str("Connected")]
         IN IF db.list.tag = "return"
            THEN [r1 EXCEPT
                    !.collections = List(Prefix(db.list.value.elems, 10)),
                    !.database = Str("(ok) Connected & Working")]
            ELSE [r1 EXCEPT !.database =
                    Str("(warn)  Connected but Error: "
                        \o Prefix(PyStr(db.list.exc), 50))]

\* os.getenv(name) in a condition: None and "" both count as not set
Truthy(v) == IsStr(v) /\ v.s # ""

\* test_database, given how the import ended and the environment
test_database(imported, env) ==
    LET tried == IF imported.tag = "raise"
                 THEN test_database_except(imported.exc, InitialDiagnostics)
                 ELSE Return(test_database_probe(imported.value, InitialDiagnostics))
    IN IF tried.tag = "raise" THEN tried
       ELSE Return(Obj([tried.value EXCEPT
                !.database_url = IF Truthy(env.DATABASE_URL) THEN Str("(ok) Set")
                                 ELSE Str("(no) Not Set"),
                !.database_name = IF Truthy(env.DATABASE_NAME) THEN Str("(ok) Set")
                                  ELSE Str("(no) Not Set")]))

\* ------------------------------------------------------ bounded inputs
\* longest diary array drawn
MaxLen == 2
\* number of server workers handling requests at the same time
NumWorkers == 2

Workers == 1..NumWorkers

Day == Str("2024-01-01")
\* the diary entries drawn: two valid ones sharing id "1" (the second with
\* every declared field and one undeclared), one with id "2" and nothing
\* else, one without id, and an element that is no object
ItemA == Obj([id |-> Str("1"), title |-> Str("Day1"), date |-> Day])
ItemB == Obj([id |-> Str("1"), title |-> Str("Again"), date |-> Day,
              summary |-> Str("s"), content |-> Str("c"), mood |-> Str("m")])
ItemBare == Obj([id |-> Str("2")])
ItemNoId == Obj([title |-> Str("Untitled"), date |-> Day])
Items == {ItemA, ItemB, ItemBare, ItemNoId, Num(5)}

\* the ids requested
ItemIds == {"1", "2"}

Arrays == UNION {[1..n -> Items] : n \in 0..MaxLen}

\* contents of diary.json that are neither an array nor an object with "items"
OtherShapes == {Obj([entries |-> List(<<ItemA>>)]), Str("1"), Num(5), Null}
\* objects whose "items" is no array
OddItems == {Obj([items |-> ItemA]), Obj([items |-> Str("")]), Obj([items |-> Null])}

DiaryFiles ==
    {Absent, Unreadable, Garbage}
    \cup {Json(List(a)) : a \in Arrays}
    \cup {Json(Obj([items |-> List(a)])) : a \in Arrays}
    \cup {Json(v) : v \in OtherShapes \cup OddItems}

Site == Obj([label |-> Str("site"), url |-> Str("http://x")])
ProfileAda == Obj([name |-> Str("Ada"), photo_url |-> Str("a.png"),
                   socials |-> List(<<Site>>)])
ProfileWhole == Obj([name |-> Str("Ada"), photo_url |-> Str("a.png"),
                     tagline |-> Str("hi"), socials |-> List(<<Site, Site>>)])
ProfileMore == Obj([name |-> Str("Ada"), photo_url |-> Str("a.png"),
                    tagline |-> Null, email |-> Str("ada@x"),
                    socials |-> List(<<>>)])
ProfileNameOnly == Obj([name |-> Str("Ada")])

ProfileFiles ==
    {Absent, Unreadable, Garbage}
    \cup {Json(v) : v \in {ProfileAda, ProfileWhole, ProfileMore,
                           ProfileNameOnly, List(<<>>)}}

\* what an external edit may put in place of a file
EditedFiles(path) ==
    IF path = PROFILE_PATH
    THEN {Unreadable, Json(ProfileAda), Json(ProfileMore)}
    ELSE {Garbage, Json(List(<<ItemA>>)), Json(Obj([items |-> List(<<ItemB, ItemA>>)]))}

\* how "from database import db" and the calls on db may end
Collections(n) == [i \in 1..n |-> Str("c" \o IntText(i))]
Databases ==
    {[kind |-> "None"]}
    \cup {[kind |-> "Database", has_name |-> TRUE, name |-> "portfolio",
            list |-> Return(List(Collections(12)))],
          [kind |-> "Database", has_name |-> FALSE, name |-> "",
            list |-> Return(List(Collections(2)))],
          [kind |-> "Database", has_name |-> TRUE, name |-> "portfolio",
            list |-> Raise(Exc("ServerSelectionTimeoutError",
              "localhost:27017: [Errno 111] Connection refused, Timeout: 30s"))]}
Imports ==
    {Return(db) : db \in Databases}
    \cup {Raise(Exc("ModuleNotFoundError", "No module named 'database'")),
          Raise(Exc("ImportError", "cannot import name 'db' from 'database'")),
          Raise(Exc("ConfigurationError",
            "The DNS query name does not exist: _mongodb._tcp.cluster0.example.net."))}
\* os.getenv: None when unset, else the string, which may be empty
Envs ==
    [DATABASE_URL : {Null, Str(""), Str("mongodb://localhost")},
     DATABASE_NAME : {Null, Str(""), Str("portfolio")}]

\* -------------------------------------------------------- state machine
ROOT == "/"
PROFILE == "/api/profile"
DIARY == "/api/diary"
DIARY_ITEM == "/api/diary/{item_id}"
TEST == "/test"
FileRoutes == {PROFILE, DIARY, DIARY_ITEM}

PathOf(route) == IF route = PROFILE THEN PROFILE_PATH ELSE DIARY_PATH

Idle == [pc |-> "idle", route |-> "none", arg |-> ""]
NoResp == [route |-> "none", arg |-> "", status |-> 0, body |-> Null]
Response(route, arg, r) ==
    [route |-> route, arg |-> arg, status |-> r.status, body |-> r.body]

Storage(pf, df) == [p \in Paths |-> IF p = PROFILE_PATH THEN pf ELSE df]

\* a route's handler and response_model, given how read_json_file ended
Serve(route, arg, r) ==
    CASE route = PROFILE -> http_response("Profile", get_profile(r))
      [] route = DIARY -> http_response("List[DiaryItem]", list_diary(r))
      [] route = DIARY_ITEM -> http_response("DiaryItem", get_diary_item(arg, r))

\* one request at a time, over any pair of files
Init ==
    /\ \E pf \in ProfileFiles, df \in DiaryFiles : fs = Storage(pf, df)
    /\ boot = fs
    /\ workers = [w \in {1} |-> Idle]
    /\ resp = NoResp

\* GET /
ReadRoot(w) ==
    /\ workers[w].pc = "idle"
    /\ resp' = Response(ROOT, "", http_response("none", read_root))
    /\ UNCHANGED <<fs, boot, workers>>

\* A request to a file route, up to the os.path.exists test of
\* read_json_file: without the file the handler ends here, with it the
\* worker goes on to open().
Begin(w, route, arg) ==
    /\ workers[w].pc = "idle"
    /\ IF os_path_exists(PathOf(route))
       THEN /\ workers' = [workers EXCEPT ![w] = [pc |-> "open", route |-> route,
                                                   arg |-> arg]]
            /\ resp' = NoResp
       ELSE /\ resp' = Response(route, arg,
                                Serve(route, arg, file_not_found(PathOf(route))))
            /\ UNCHANGED workers
    /\ UNCHANGED <<fs, boot>>

\* The rest of the request: open(), json.load() and the handler's own code.
Finish(w, route) ==
    /\ workers[w].pc = "open"
    /\ workers[w].route = route
    /\ resp' = Response(route, workers[w].arg,
                        Serve(route, workers[w].arg, open_and_load(PathOf(route))))
    /\ fs' = [fs EXCEPT ![PathOf(route)] =
                 IF @ = Absent THEN Absent ELSE opened(@)]
    /\ workers' = [workers EXCEPT ![w] = Idle]
    /\ UNCHANGED boot

GetProfile(w) == Begin(w, PROFILE, "")
ListDiary(w) == Begin(w, DIARY, "")
GetDiaryItem(w, item_id) == Begin(w, DIARY_ITEM, item_id)
GetProfileLoad(w) == Finish(w, PROFILE)
ListDiaryLoad(w) == Finish(w, DIARY)
GetDiaryItemLoad(w) == Finish(w, DIARY_ITEM)

\* GET /test
TestDatabase(w, imported, env) ==
    /\ workers[w].pc = "idle"
    /\ resp' = Response(TEST, "", http_response("none", test_database(imported, env)))
    /\ UNCHANGED <<fs, boot, workers>>

\* out-of-band edits of the JSON files
DeleteFile(path) ==
    /\ fs[path] # Absent
    /\ fs' = [fs EXCEPT ![path] = Absent]
    /\ resp' = NoResp
    /\ UNCHANGED <<boot, workers>>

WriteFile(path, file) ==
    /\ fs[path] # file
    /\ fs' = [fs EXCEPT ![path] = file]
    /\ resp' = NoResp
    /\ UNCHANGED <<boot, workers>>

\* the file routes, one request at a time, over any pair of files, which
\* may be deleted under them
Next ==
    \/ \E w \in DOMAIN workers : ReadRoot(w)
    \/ \E w \in DOMAIN workers : GetProfile(w)
    \/ \E w \in DOMAIN workers : GetProfileLoad(w)
    \/ \E w \in DOMAIN workers : ListDiary(w)
    \/ \E w \in DOMAIN workers : ListDiaryLoad(w)
    \/ \E w \in DOMAIN workers : \E item_id \in ItemIds : GetDiaryItem(w, item_id)
    \/ \E w \in DOMAIN workers : GetDiaryItemLoad(w)
    \/ \E path \in Paths : DeleteFile(path)

Spec == Init /\ [][Next]_vars

\* the whole service on NumWorkers workers, started before either file
\* exists, while the files are created, replaced and deleted
InitEdits ==
    /\ fs = Storage(Absent, Absent)
    /\ boot = fs
    /\ workers = [w \in Workers |-> Idle]
    /\ resp = NoResp

NextEdits ==
    \/ \E w \in DOMAIN workers : ReadRoot(w)
    \/ \E w \in DOMAIN workers : GetProfile(w)
    \/ \E w \in DOMAIN workers : GetProfileLoad(w)
    \/ \E w \in DOMAIN workers : ListDiary(w)
    \/ \E w \in DOMAIN workers : ListDiaryLoad(w)
    \/ \E w \in DOMAIN workers : \E item_id \in ItemIds : GetDiaryItem(w, item_id)
    \/ \E w \in DOMAIN workers : GetDiaryItemLoad(w)
    \/ \E w \in DOMAIN workers :
          \E imported \in Imports, env \in Envs : TestDatabase(w, imported, env)
    \/ \E path \in Paths : DeleteFile(path)
    \/ \E path \in Paths : \E file \in EditedFiles(path) : WriteFile(path, file)

SpecEdits == InitEdits /\ [][NextEdits]_vars

\* ---------------------------------------------------------------- claims
\* In a state with resp.route = r the step just taken completed a request to
\* r, and fs is the storage that request read.
Served(route) == resp.route = route
DiaryFile == fs[DIARY_PATH]
ProfileFile == fs[PROFILE_PATH]

\* the diary list of a file: the bare array, the array under "items", and
\* no entries when the file is absent or holds another shape
IsArrayFile(file) ==
    /\ file.kind = "json"
    /\ \/ IsList(file.value)
       \/ IsDict(file.value) /\ HasKey(file.value, "items")
                             /\ IsList(file.value.fields["items"])
IsOtherShape(file) ==
    /\ file.kind = "json"
    /\ ~IsList(file.value)
    /\ ~(IsDict(file.value) /\ HasKey(file.value, "items"))
HasDiaryList(file) == file = Absent \/ IsArrayFile(file) \/ IsOtherShape(file)
DiaryListOf(file) ==
    IF IsArrayFile(file)
    THEN IF IsList(file.value) THEN file.value.elems
         ELSE file.value.fields["items"].elems
    ELSE <<>>

HasId(v, x) == IsDict(v) /\ HasKey(v, "id") /\ v.fields["id"] = Str(x)
Matches(l, x) == {i \in 1..Len(l) : HasId(l[i], x)}
First(S) == CHOOSE i \in S : \A j \in S : i <= j

\* body holds exactly the declared fields, each with the value v has for it
\* and null for one v leaves out
IsProjection(body, v, declared) ==
    /\ IsDict(body)
    /\ DOMAIN body.fields = declared
    /\ \A k \in declared :
          body.fields[k] = IF k \in DOMAIN v.fields THEN v.fields[k] ELSE Null

DiaryItemFields == {"id", "title", "date", "summary", "content"}
IsDiaryItemShaped(v) ==
    /\ IsDict(v)
    /\ \A k \in {"id", "title", "date"} : k \in DOMAIN v.fields /\ IsStr(v.fields[k])
    /\ \A k \in {"summary", "content"} :
          k \in DOMAIN v.fields => IsStr(v.fields[k]) \/ v.fields[k] = Null

ErrorTextOf(path, file) ==
    IF file = Garbage THEN "Expecting value: line 1 column 1 (char 0)"
    ELSE "[Errno 13] Permission denied: '" \o path \o "'"

\* a JSON object without its null members: an optional field left out and
\* the same field sent as null are read as the same content
Strip(v) ==
    IF IsDict(v)
    THEN Obj([k \in {x \in DOMAIN v.fields : v.fields[x] # Null} |-> v.fields[k]])
    ELSE v
SameContent(a, b) == Strip(a) = Strip(b)

\* C1 as stated: whenever some item of the diary list has id X, GET
\* /api/diary/X responds 200 with the first such item, and when none has
\* (or diary.json is absent) it responds 404.
C1_AnyContent ==
    Served(DIARY_ITEM) /\ HasDiaryList(DiaryFile) =>
        LET l == DiaryListOf(DiaryFile)
            m == Matches(l, resp.arg)
        IN IF m # {} THEN resp.status = 200 /\ SameContent(resp.body, l[First(m)])
           ELSE resp.status = 404

\* C1 amended: GET /api/diary/X walks the diary list in order up to the
\* first element that is no object or has id X.  No such element (also when
\* diary.json is absent): 404.  An element that is no object: 500.  The
\* first item with id X: 200 with its DiaryItem fields (null for an omitted
\* summary or content, undeclared keys dropped) when its title and date are
\* strings, else 500.
C1_FirstMatch ==
    Served(DIARY_ITEM) /\ HasDiaryList(DiaryFile) =>
        LET l == DiaryListOf(DiaryFile)
            stops == {i \in 1..Len(l) : ~IsDict(l[i]) \/ HasId(l[i], resp.arg)}
        IN IF stops = {}
           THEN resp.status = 404 /\ resp.body = Detail("Diary item not found")
           ELSE LET item == l[First(stops)]
                IN IF IsDiaryItemShaped(item)
                   THEN /\ resp.status = 200
                        /\ IsProjection(resp.body, item, DiaryItemFields)
                   ELSE resp.status = 500

\* two different items share the requested id and the request was served
C1_Witness ==
    /\ Served(DIARY_ITEM)
    /\ resp.status = 200
    /\ resp.arg = "1"
    /\ DiaryFile = Json(List(<<ItemB, ItemA>>))
    /\ resp.body.fields["title"] = Str("Again")

\* C2 as stated: for diary.json holding a bare array A, and for one holding
\* {"items": A}, GET /api/diary returns A.
C2_ReturnsArray ==
    Served(DIARY) /\ IsArrayFile(DiaryFile) =>
        LET a == DiaryListOf(DiaryFile)
        IN /\ resp.status = 200
           /\ IsList(resp.body)
           /\ Len(resp.body.elems) = Len(a)
           /\ \A i \in 1..Len(a) : SameContent(resp.body.elems[i], a[i])

\* C2 amended: for a bare array A and for {"items": A} alike, GET /api/diary
\* responds 200 with one entry per element of A, in A's order, each entry
\* the DiaryItem fields of that element, when every element of A is a valid
\* DiaryItem; when some element is not, it responds 500.
C2_BothShapes ==
    Served(DIARY) /\ IsArrayFile(DiaryFile) =>
        LET a == DiaryListOf(DiaryFile)
        IN IF \A i \in 1..Len(a) : IsDiaryItemShaped(a[i])
           THEN /\ resp.status = 200
                /\ IsList(resp.body)
                /\ Len(resp.body.elems) = Len(a)
                /\ \A i \in 1..Len(a) :
                      IsProjection(resp.body.elems[i], a[i], DiaryItemFields)
           ELSE resp.status = 500

\* the wrapped shape, two different valid items, served
C2_Witness ==
    /\ Served(DIARY)
    /\ resp.status = 200
    /\ DiaryFile = Json(Obj([items |-> List(<<ItemB, ItemA>>)]))

\* C3: a file that exists but cannot be opened or parsed makes each file
\* route respond 500 with the exception's text as detail; GET
\* /api/diary/{item_id} passes on the 500 of list_diary with that very detail.
C3_ReadFailure ==
    \A route \in FileRoutes :
        Served(route) /\ fs[PathOf(route)] \in {Garbage, Unreadable} =>
            /\ resp.status = 500
            /\ resp.body = Detail(ErrorTextOf(PathOf(route), fs[PathOf(route)]))

C3_Witness ==
    Served(DIARY_ITEM) /\ DiaryFile = Garbage /\ resp.status = 500

\* C4: with diary.json absent GET /api/diary responds 200 with an empty array.
C4_MissingDiary ==
    Served(DIARY) /\ DiaryFile = Absent =>
        resp.status = 200 /\ resp.body = List(<<>>)

\* diary.json was there at the start and is gone when the request reads it
C4_Witness ==
    /\ Served(DIARY)
    /\ DiaryFile = Absent
    /\ boot[DIARY_PATH] # Absent
    /\ resp.status = 200

Mentions(text, word) ==
    \E i \in 1..Len(text) : SubSeq(text, i, Min(Len(text), i + Len(word) - 1)) = word

\* C5: with profile.json absent GET /api/profile responds 404 and its detail
\* names the file.
C5_MissingProfile ==
    Served(PROFILE) /\ ProfileFile = Absent =>
        /\ resp.status = 404
        /\ IsDict(resp.body)
        /\ DOMAIN resp.body.fields = {"detail"}
        /\ IsStr(resp.body.fields["detail"])
        /\ Mentions(resp.body.fields["detail"].s, "profile.json")

C5_Witness == Served(PROFILE) /\ ProfileFile = Absent /\ resp.status = 404

ProfileFields == {"name", "photo_url", "tagline", "socials"}
SocialLinkFields == {"label", "url"}
IsSocialLinkShaped(v) ==
    IsDict(v) /\ \A k \in SocialLinkFields : k \in DOMAIN v.fields /\ IsStr(v.fields[k])
IsProfileShaped(v) ==
    /\ IsDict(v)
    /\ \A k \in {"name", "photo_url"} : k \in DOMAIN v.fields /\ IsStr(v.fields[k])
    /\ "tagline" \in DOMAIN v.fields =>
          IsStr(v.fields["tagline"]) \/ v.fields["tagline"] = Null
    /\ "socials" \in DOMAIN v.fields
    /\ IsList(v.fields["socials"])
    /\ \A i \in 1..Len(v.fields["socials"].elems) :
          IsSocialLinkShaped(v.fields["socials"].elems[i])

\* C6 as stated: for valid profile.json contents GET /api/profile returns
\* exactly that content with status 200.
C6_ExactContent ==
    Served(PROFILE) /\ ProfileFile.kind = "json" /\ IsProfileShaped(ProfileFile.value) =>
        resp.status = 200 /\ SameContent(resp.body, ProfileFile.value)

\* C6 amended: for valid profile.json contents GET /api/profile responds 200
\* with the declared Profile fields of the content: name, photo_url and
\* tagline as they are (tagline null when left out), socials entry by entry
\* with label and url, and no key the schema does not declare; a content
\* made of the declared fields only is returned exactly.
C6_DeclaredFields ==
    Served(PROFILE) /\ ProfileFile.kind = "json" /\ IsProfileShaped(ProfileFile.value) =>
        LET c == ProfileFile.value
            links == c.fields["socials"].elems
        IN /\ resp.status = 200
           /\ IsDict(resp.body)
           /\ DOMAIN resp.body.fields = ProfileFields
           /\ \A k \in {"name", "photo_url"} : resp.body.fields[k] = c.fields[k]
           /\ resp.body.fields["tagline"] =
                 IF "tagline" \in DOMAIN c.fields THEN c.fields["tagline"] ELSE Null
           /\ IsList(resp.body.fields["socials"])
           /\ Len(resp.body.fields["socials"].elems) = Len(links)
           /\ \A i \in 1..Len(links) :
                 IsProjection(resp.body.fields["socials"].elems[i], links[i],
                              SocialLinkFields)
           /\ (/\ DOMAIN c.fields = ProfileFields
               /\ \A i \in 1..Len(links) : DOMAIN links[i].fields = SocialLinkFields)
              => resp.body = c

\* a valid profile with a key the schema does not declare was served
C6_Witness ==
    Served(PROFILE) /\ ProfileFile = Json(ProfileMore) /\ resp.status = 200

DiagnosticFields ==
    {"backend", "database", "database_url", "database_name", "connection_status",
     "collections"}

\* C7: GET /test answers 200 with the diagnostic object, however the import
\* of the database module and the calls on db end and whatever the
\* environment holds.
C7_TestAlways200 ==
    Served(TEST) =>
        /\ resp.status = 200
        /\ IsDict(resp.body)
        /\ DOMAIN resp.body.fields = DiagnosticFields

\* the import raised something other than ImportError
C7_Witness ==
    /\ Served(TEST)
    /\ IsDict(resp.body)
    /\ SubSeq(resp.body.fields["database"].s, 1, 11) = "(no) Error:"

\* what the service answers on route for a file in the given state
Expected(route, arg, file) ==
    CASE file = Absent ->
           IF route = PROFILE THEN [status |-> 404, body |-> Detail(ProfileNotFoundDetail)]
           ELSE IF route = DIARY THEN [status |-> 200, body |-> List(<<>>)]
           ELSE [status |-> 404, body |-> Detail("Diary item not found")]
      [] file \in {Garbage, Unreadable} ->
           [status |-> 500, body |-> Detail(ErrorTextOf(PathOf(route), file))]
      [] OTHER -> Serve(route, arg, Return(file.value))

\* C8: every response of a file route is the answer for the file as it is
\* when the request reads it: nothing read or answered before has a part in
\* it, so an edit shows in the very next response.
C8_NoCaching ==
    \A route \in FileRoutes :
        Served(route) =>
            /\ resp.status = Expected(route, resp.arg, fs[PathOf(route)]).status
            /\ resp.body = Expected(route, resp.arg, fs[PathOf(route)]).body

\* a file created after the start was served
C8_Witness ==
    /\ Served(PROFILE)
    /\ resp.status = 200
    /\ boot[PROFILE_PATH] = Absent
    /\ ProfileFile = Json(ProfileMore)

\* C9: a step of a request (one that moves a worker or produces a response)
\* leaves both files as they are, and a worker that is idle afterwards keeps
\* nothing of the requests it handled.
C9_ReadOnly ==
    [][(workers' # workers \/ resp' # NoResp) =>
          /\ fs' = fs
          /\ \A w \in DOMAIN workers : workers'[w].pc = "idle" => workers'[w] = Idle]_vars

\* a request was answered from a file while another worker was in the
\* middle of a request, and the file is still there
C9_Witness ==
    /\ Served(DIARY)
    /\ resp.status = 200
    /\ DiaryFile = Json(List(<<ItemA>>))
    /\ \E w \in DOMAIN workers : workers[w].pc = "open"

\* C10: when diary.json parses to something that is neither an array nor an
\* object with an "items" key, GET /api/diary responds 200 with an empty
\* array and GET /api/diary/{item_id} responds 404 for every id.
C10_OtherShapes ==
    IsOtherShape(DiaryFile) =>
        /\ Served(DIARY) => resp.status = 200 /\ resp.body = List(<<>>)
        /\ Served(DIARY_ITEM) => resp.status = 404

C10_Witness ==
    /\ Served(DIARY_ITEM)
    /\ DiaryFile = Json(Obj([entries |-> List(<<ItemA>>)]))
    /\ resp.arg = "1"
    /\ resp.status = 404

=============================================================================
